---------------------------- MODULE Spec2Model ----------------------------
(***************************************************************************)
(* EduEase: the response-parsing layer of backend/processing.py.           *)
(*                                                                         *)
(* A notes document is a sequence of characters.  A character is a TLA+    *)
(* string; the words the patterns look for as a whole ("json", "dot",      *)
(* "digraph", a section label, the styling text) are one character each,   *)
(* every other character ("#", " ", "\n", "[", "{", ...) is itself.         *)
(* The regular expressions are matched character by character, in the      *)
(* order Python's backtracking matcher tries the alternatives.             *)
(***************************************************************************)
EXTENDS Integers, Sequences, FiniteSets

VARIABLES pc, notes_text, key, quiz_ret, graphviz_data, summary_text,
          audio_file, where, video_url, transcript, response

vars == <<pc, notes_text, key, quiz_ret, graphviz_data, summary_text,
          audio_file, where, video_url, transcript, response>>

----------------------------------------------------------------------------
(* Bounds of the model *)

\* the longest document, counted in segments (headers, fences, bodies)
MaxSegs == 5

\* the longest document of the specification with arbitrary labels
MaxSegsAnyLabel == 3

\* the number of /generate requests the server receives
MaxRequests == 2

----------------------------------------------------------------------------
(* Strings *)

\* the characters \s matches and str.strip() removes
IsSpace(c) == c \in {" ", "\n"}

\* re.IGNORECASE folds the case of pattern and text
Lower(c) ==
    CASE c = "MCQ Quiz" -> "mcq quiz"
      [] c = "Flashcard Review" -> "flashcard review"
      [] c = "JSON" -> "json"
      [] c = "Summary" -> "summary"
      [] c = "Detailed" -> "detailed"
      [] OTHER -> c

SameChar(a, b, ignorecase) == IF ignorecase THEN Lower(a) = Lower(b) ELSE a = b

\* the literal lit occurs in text at position i
LiteralAt(text, i, lit, ignorecase) ==
    /\ i >= 1
    /\ i + Len(lit) - 1 <= Len(text)
    /\ \A k \in 1..Len(lit) : SameChar(text[i + k - 1], lit[k], ignorecase)

\* a greedy \s* at position i stops here: the first position from i on that
\* holds no whitespace
RECURSIVE SpaceRunEnd(_, _)
SpaceRunEnd(text, i) ==
    IF i <= Len(text) /\ IsSpace(text[i]) THEN SpaceRunEnd(text, i + 1) ELSE i

Min(S) == CHOOSE x \in S : \A y \in S : x <= y
Max(S) == CHOOSE x \in S : \A y \in S : x >= y

Slice(text, from, to) == SubSeq(text, from, to - 1)

\* str.strip()
strip(text) ==
    LET keep == {i \in 1..Len(text) : ~IsSpace(text[i])}
    IN  IF keep = {} THEN <<>> ELSE SubSeq(text, Min(keep), Max(keep))

RECURSIVE Flatten(_)
Flatten(segs) == IF segs = <<>> THEN <<>> ELSE Head(segs) \o Flatten(Tail(segs))

----------------------------------------------------------------------------
(* Python values: what json.loads returns *)

PyInt(k) == [type |-> "int", n |-> k, items |-> <<>>]
PyList(xs) == [type |-> "list", n |-> 0, items |-> xs]
PyDict == [type |-> "dict", n |-> 0, items |-> <<>>]
PyNone == [type |-> "NoneType", n |-> 0, items |-> <<>>]

----------------------------------------------------------------------------
(* json.loads, on the JSON the characters can spell: integers of the digits *)
(* 1 and 2, arrays, and the empty object                                    *)

IsDigit(c) == c \in {"1", "2"}
DigitValue(c) == IF c = "1" THEN 1 ELSE 2

JsonError == [ok |-> FALSE, value |-> PyNone, end |-> 0]
JsonValue(v, e) == [ok |-> TRUE, value |-> v, end |-> e]

\* the whitespace the decoder skips from position i on
SkipWhitespace(s, i) == SpaceRunEnd(s, i)

\* the number at position i: all the digits that follow each other
RECURSIVE ScanNumber(_, _, _)
ScanNumber(s, i, acc) ==
    IF i <= Len(s) /\ IsDigit(s[i])
    THEN ScanNumber(s, i + 1, acc * 10 + DigitValue(s[i]))
    ELSE JsonValue(PyInt(acc), i)

RECURSIVE ScanOnce(_, _), ScanArrayItems(_, _, _)

\* scan_once: the value that starts at position i
ScanOnce(s, i) ==
    IF i > Len(s) THEN JsonError
    ELSE IF s[i] = "[" THEN
        LET j == SkipWhitespace(s, i + 1)
        IN  IF j <= Len(s) /\ s[j] = "]"
            THEN JsonValue(PyList(<<>>), j + 1)
            ELSE ScanArrayItems(s, j, <<>>)
    ELSE IF s[i] = "{" THEN
        LET j == SkipWhitespace(s, i + 1)
        IN  IF j <= Len(s) /\ s[j] = "}"
            THEN JsonValue(PyDict, j + 1)
            ELSE JsonError
    ELSE IF IsDigit(s[i]) THEN ScanNumber(s, i, 0)
    ELSE JsonError

\* JSONArray's loop: a value, then "]" or a "," and the next value
ScanArrayItems(s, i, items) ==
    LET item == ScanOnce(s, i)
    IN  IF ~item.ok THEN JsonError
        ELSE LET j == SkipWhitespace(s, item.end)
                 got == Append(items, item.value)
             IN  IF j > Len(s) THEN JsonError
                 ELSE IF s[j] = "]" THEN JsonValue(PyList(got), j + 1)
                 ELSE IF s[j] = "," THEN ScanArrayItems(s, SkipWhitespace(s, j + 1), got)
                 ELSE JsonError

\* json.loads(s): ok and the value, or not ok for a JSONDecodeError
json_loads(s) ==
    LET obj == ScanOnce(s, SkipWhitespace(s, 1))
    IN  IF ~obj.ok THEN JsonError
        ELSE IF SkipWhitespace(s, obj.end) # Len(s) + 1 THEN JsonError
        ELSE obj

----------------------------------------------------------------------------
(* The regular expressions *)

\* the character ` is written Backtick: a TLA+ string cannot hold it
Backtick == "backtick"

CloseFence == <<Backtick, Backtick, Backtick>>
JsonFence == CloseFence \o <<"json">>
DotFence == CloseFence \o <<"dot">>
HeaderMark == <<"#", "#">>

NoMatch == [matched |-> FALSE, group |-> <<>>]

\* the pattern's tail, \s* and the closing fence, matches at position e
ClosingAt(text, e, ignorecase) ==
    \E r \in e..SpaceRunEnd(text, e) : LiteralAt(text, r, CloseFence, ignorecase)

\* a greedy group ([\s\S]+) would run to the last closing fence
GroupEndsGreedy(text, s, ignorecase) ==
    LET ends == {e \in (s + 1)..(Len(text) + 1) : ClosingAt(text, e, ignorecase)}
    IN  IF ends = {} THEN {} ELSE {Max(ends)}

\* the ends the lazy group ([\s\S]+?) that starts at s can take: each is
\* followed by the tail, and the matcher takes the first
GroupEnds(text, s, ignorecase) ==
    {e \in (s + 1)..(Len(text) + 1) : ClosingAt(text, e, ignorecase)}

\* \s*([\s\S]+?)\s* and the closing fence at position p: the greedy \s* gives whitespace back
\* only when no group can start after it
FencedGroup(text, p, ignorecase) ==
    LET starts == {s \in p..SpaceRunEnd(text, p) : GroupEnds(text, s, ignorecase) # {}}
    IN  IF starts = {} THEN NoMatch
        ELSE LET s == Max(starts)
             IN  [matched |-> TRUE,
                  group |-> Slice(text, s, Min(GroupEnds(text, s, ignorecase)))]

\* the pattern compiled with no flag
QuizCaseSensitive == FALSE

\* re.IGNORECASE, the flag the quiz pattern is compiled with
QuizIgnoreCase == TRUE

\* a search for the json fence in the whole text, not from the header on
JsonFenceAnywhere(text, p) ==
    {f \in 1..(Len(text) + 1) :
        /\ LiteralAt(text, f, JsonFence, TRUE)
        /\ FencedGroup(text, f + Len(JsonFence), TRUE).matched}

\* [\s\S]*? and the json fence with its group from position p: the lazy
\* [\s\S]*? stops at the first json fence that has a group and a closing fence after it
JsonFenceFrom(text, p) ==
    {f \in p..(Len(text) + 1) :
        /\ LiteralAt(text, f, JsonFence, QuizIgnoreCase)
        /\ FencedGroup(text, f + Len(JsonFence), QuizIgnoreCase).matched}

\* ##\s*{key} at position i: where the rest of the pattern may go on
KeyEnds(text, i, label) ==
    IF ~LiteralAt(text, i, HeaderMark, QuizIgnoreCase) THEN {}
    ELSE {j + Len(label) : j \in
            {k \in (i + 2)..SpaceRunEnd(text, i + 2) :
                LiteralAt(text, k, label, QuizIgnoreCase)}}

\* the pattern at position i, for the key's literal text
QuizMatchAt(text, i, label) ==
    LET ends == {e \in KeyEnds(text, i, label) : JsonFenceFrom(text, e) # {}}
    IN  IF ends = {} THEN NoMatch
        ELSE LET f == Min(JsonFenceFrom(text, Max(ends)))
             IN  FencedGroup(text, f + Len(JsonFence), QuizIgnoreCase)

\* pattern.search(notes_text): the match at the leftmost position that has one
QuizSearch(text, label) ==
    LET at == {i \in 1..(Len(text) + 1) : QuizMatchAt(text, i, label).matched}
    IN  IF at = {} THEN NoMatch ELSE QuizMatchAt(text, Min(at), label)

----------------------------------------------------------------------------
(* parse_quiz_from_json *)

\* the depth of open parentheses after the key's first n characters, and -1
\* once a ")" closes a parenthesis that was not open
RECURSIVE ParenDepth(_, _)
ParenDepth(label, n) ==
    IF n = 0 THEN 0
    ELSE LET before == ParenDepth(label, n - 1)
         IN  IF before < 0 THEN -1
             ELSE IF label[n] = "(" THEN before + 1
             ELSE IF label[n] = ")" THEN before - 1
             ELSE before

\* the key is pasted into the pattern as it is: re.compile raises re.error
\* for a parenthesis left open or never opened, and for a "*" with nothing
\* to repeat (after the \s*, a "(" or another "*")
re_compile_raises(label) ==
    \/ ParenDepth(label, Len(label)) # 0
    \/ \E i \in 1..Len(label) :
          /\ label[i] = "*"
          /\ (i = 1 \/ label[i - 1] \in {"(", "*"})

Returned(v) == [raised |-> "none", value |-> v]
Raised(e) == [raised |-> e, value |-> PyNone]

\* the call with no except clause: the JSONDecodeError leaves it
parse_quiz_uncaught(text, label) ==
    IF re_compile_raises(label) THEN Raised("re.error")
    ELSE LET match == QuizSearch(text, label)
         IN  IF ~match.matched THEN Returned(PyList(<<>>))
             ELSE LET decoded == json_loads(match.group)
                  IN  IF decoded.ok THEN Returned(decoded.value)
                      ELSE Raised("JSONDecodeError")

\* what a call of parse_quiz_from_json(text, label) ends with
parse_quiz_from_json(text, label) ==
    IF re_compile_raises(label) THEN Raised("re.error")
    ELSE LET match == QuizSearch(text, label)
         IN  IF ~match.matched THEN Returned(PyList(<<>>))
             ELSE LET decoded == json_loads(match.group)
                  IN  IF decoded.ok THEN Returned(decoded.value)
                      ELSE Returned(PyList(<<>>))

----------------------------------------------------------------------------
(* parse_graphviz *)

\* Optional[str]: None, or a string
PyNoneStr == [kind |-> "None", text |-> <<>>]
PyStr(t) == [kind |-> "str", text |-> t]

\* the styling text, one character of the model (it holds no brace)
styling ==
    <<"bgcolor=\"transparent\"; node [style=\"filled\", shape=\"box\", fillcolor=\"#AEC6CF\", fontcolor=\"#121212\", color=\"#FFFFFF\", penwidth=2, fontname=\"Inter\"]; edge [color=\"#FFFFFF\", fontname=\"Inter\"];">>

\* re.search of the dot pattern: the leftmost dot fence that has a group and
\* a closing fence after it; the pattern has no flags
DotSearch(text) ==
    LET at == {i \in 1..(Len(text) + 1) :
                  /\ LiteralAt(text, i, DotFence, FALSE)
                  /\ FencedGroup(text, i + Len(DotFence), FALSE).matched}
    IN  IF at = {} THEN NoMatch
        ELSE FencedGroup(text, Min(at) + Len(DotFence), FALSE)

\* str.startswith
startswith(text, prefix) == LiteralAt(text, 1, prefix, FALSE)

\* f'digraph G {{ {content} }}'
WrapDigraph(content) ==
    <<"digraph", " ", "G", " ", "{", " ">> \o content \o <<" ", "}">>

\* text.replace(old, new) with no count: every old is replaced
RECURSIVE replace_all(_, _, _)
replace_all(text, old, new) ==
    IF text = <<>> THEN <<>>
    ELSE (IF Head(text) = old THEN new ELSE <<Head(text)>>)
            \o replace_all(Tail(text), old, new)

\* text.replace(old, new, 1), old one character: only the first is replaced
replace_first(text, old, new) ==
    LET at == {i \in 1..Len(text) : text[i] = old}
    IN  IF at = {} THEN text
        ELSE SubSeq(text, 1, Min(at) - 1) \o new
                \o SubSeq(text, Min(at) + 1, Len(text))

\* what a call of parse_graphviz(text) returns
parse_graphviz(text) ==
    LET match == DotSearch(text)
    IN  IF ~match.matched THEN PyNoneStr
        ELSE LET content == strip(match.group)
                 graph == IF ~startswith(strip(content), <<"digraph">>)
                          THEN WrapDigraph(content)
                          ELSE content
             IN  PyStr(replace_first(graph, "{", <<"{", " ">> \o styling))

----------------------------------------------------------------------------
(* get_topic_from_summary: the span its pattern captures *)

SummaryWord == <<"Summary">>
DetailedWord == <<"Detailed">>

\* a lookahead (?=##|\Z), which the end of the text satisfies as well
LookaheadOrEnd(text, e) ==
    e = Len(text) + 1 \/ LiteralAt(text, e, HeaderMark, TRUE)

\* the lookahead (?=##) holds at position e
LookaheadAt(text, e) == LiteralAt(text, e, HeaderMark, TRUE)

\* the ends the lazy group (.*?) that starts at g can take: each stands
\* before a ##, and the matcher takes the first
SpanEnds(text, g) == {e \in g..(Len(text) + 1) : LookaheadAt(text, e)}

\* .*?\n from position r: the newlines the lazy .*? can stop at, each with
\* a group and a ## after it (re.DOTALL: the dot matches a newline too)
LineEnds(text, r) ==
    {n \in r..Len(text) : text[n] = "\n" /\ SpanEnds(text, n + 1) # {}}

\* \s*.*?\n(.*?)(?=##) at position q, behind the word Summary: the greedy
\* \s* takes the whitespace, newlines included, and gives it back only when
\* nothing matches after it; group is the pattern's group 2
SummaryTail(text, q) ==
    LET starts == {r \in q..SpaceRunEnd(text, q) : LineEnds(text, r) # {}}
    IN  IF starts = {} THEN NoMatch
        ELSE LET n == Min(LineEnds(text, Max(starts)))
             IN  [matched |-> TRUE,
                  group |-> Slice(text, n + 1, Min(SpanEnds(text, n + 1)))]

\* (Detailed\s)?Summary and the tail at position j: the optional group is
\* tried first, then the pattern without it
SummaryFrom(text, j) ==
    LET detailed ==
            IF /\ LiteralAt(text, j, DetailedWord, TRUE)
               /\ j + 1 <= Len(text)
               /\ IsSpace(text[j + 1])
               /\ LiteralAt(text, j + 2, SummaryWord, TRUE)
            THEN SummaryTail(text, j + 3)
            ELSE NoMatch
        plain ==
            IF LiteralAt(text, j, SummaryWord, TRUE)
            THEN SummaryTail(text, j + 1)
            ELSE NoMatch
    IN  IF detailed.matched THEN detailed ELSE plain

\* the pattern at position i
SummaryMatchAt(text, i) ==
    IF ~LiteralAt(text, i, HeaderMark, TRUE) THEN NoMatch
    ELSE LET starts == {j \in (i + 2)..SpaceRunEnd(text, i + 2) :
                            SummaryFrom(text, j).matched}
         IN  IF starts = {} THEN NoMatch ELSE SummaryFrom(text, Max(starts))

\* re.search(...): the match at the leftmost position that has one
summary_match(text) ==
    LET at == {i \in 1..(Len(text) + 1) : SummaryMatchAt(text, i).matched}
    IN  IF at = {} THEN NoMatch ELSE SummaryMatchAt(text, Min(at))

\* the span get_topic_from_summary goes on with: None with no match or a
\* blank group 2, else summary_match.group(2).strip()
summary_span(text) ==
    LET match == summary_match(text)
    IN  IF ~match.matched \/ strip(match.group) = <<>> THEN PyNoneStr
        ELSE PyStr(strip(match.group))

----------------------------------------------------------------------------
(* The documents and labels the model ranges over *)

\* every document made of at most n of the segments
Documents(segments, n) ==
    {Flatten(ss) : ss \in UNION {[1..k -> segments] : k \in 0..n}}

\* a header for the key MCQ Quiz in other letters and with no space, another
\* section's header, the fences, whitespace, a JSON array, a JSON object
QuizSegments ==
    { <<"#", "#", "mcq quiz">>,
      <<"#", "#", " ", "Flashcard Review">>,
      JsonFence,
      CloseFence,
      <<"\n">>,
      <<"[", "1", ",", " ", "2", "]">>,
      <<"{", "}">> }

\* the keys generate_notes_endpoint passes
ProgramKeys == { <<"MCQ Quiz">>, <<"Flashcard Review">> }

\* the program's keys and keys with characters of the pattern language;
\* re.compile rejects each of the latter, so KeyEnds only ever matches a
\* key's literal text
AnyKeys == ProgramKeys \cup { <<"(">>, <<"MCQ Quiz", "(">>, <<"*">>, <<")">> }

\* the fences, whitespace, a graph declaration, a braced body, a statement
DiagramSegments ==
    { DotFence,
      CloseFence,
      <<"\n">>,
      <<"digraph", " ", "G", " ">>,
      <<"{", " ", "a", " ", "}">>,
      <<"a">> }

\* a Summary header, a Detailed summary header with no line end, another
\* section's header, two body lines, a blank line, text with no line end
SummarySegments ==
    { <<"#", "#", " ", "Summary", "\n">>,
      <<"#", "#", "Detailed", " ", "summary">>,
      <<"#", "#", " ", "Quiz", "\n">>,
      <<"The topic is X.", "\n">>,
      <<"More.", "\n">>,
      <<"\n">>,
      <<"...">> }

NotCalled == Raised("not called")
GraphNotCalled == [kind |-> "not called", text |-> <<>>]

----------------------------------------------------------------------------
(* The state of the /generate endpoint *)

Requests == 1..MaxRequests

\* the video URLs a request can carry
URLs == {"u1", "u2"}

\* what the path Target_audio.mp3 holds: no file, a file left behind by an
\* earlier run of the server, a file of size 0, or the audio of a URL
NoFile == "absent"
StaleFile == "stale"
EmptyFile == "empty"

parser_vars == <<pc, notes_text, key, quiz_ret, graphviz_data, summary_text>>

endpoint_vars == <<audio_file, where, video_url, transcript, response>>

\* no request has been received
NoRequests ==
    /\ where = [r \in Requests |-> "idle"]
    /\ video_url = [r \in Requests |-> "none"]
    /\ transcript = [r \in Requests |-> "none"]
    /\ response = [r \in Requests |-> "none"]

----------------------------------------------------------------------------
(* The calls *)

Init ==
    /\ pc = "parse_quiz_from_json"
    /\ notes_text \in Documents(QuizSegments, MaxSegs)
    /\ key \in ProgramKeys
    /\ quiz_ret = NotCalled
    /\ graphviz_data = GraphNotCalled
    /\ summary_text = GraphNotCalled
    /\ audio_file = NoFile
    /\ NoRequests

InitAnyLabel ==
    /\ pc = "parse_quiz_from_json"
    /\ notes_text \in Documents(QuizSegments, MaxSegsAnyLabel)
    /\ key \in AnyKeys
    /\ quiz_ret = NotCalled
    /\ graphviz_data = GraphNotCalled
    /\ summary_text = GraphNotCalled
    /\ audio_file = NoFile
    /\ NoRequests

\* parse_graphviz takes no key
InitDiagram ==
    /\ pc = "parse_graphviz"
    /\ notes_text \in Documents(DiagramSegments, MaxSegs)
    /\ key = <<>>
    /\ quiz_ret = NotCalled
    /\ graphviz_data = GraphNotCalled
    /\ summary_text = GraphNotCalled
    /\ audio_file = NoFile
    /\ NoRequests

InitSummary ==
    /\ pc = "get_topic_from_summary"
    /\ notes_text \in Documents(SummarySegments, MaxSegs)
    /\ key = <<>>
    /\ quiz_ret = NotCalled
    /\ graphviz_data = GraphNotCalled
    /\ summary_text = GraphNotCalled
    /\ audio_file = NoFile
    /\ NoRequests

ParseQuizFromJson ==
    /\ pc = "parse_quiz_from_json"
    /\ quiz_ret' = parse_quiz_from_json(notes_text, key)
    /\ pc' = "done"
    /\ UNCHANGED <<notes_text, key, graphviz_data, summary_text>>
    /\ UNCHANGED endpoint_vars

ParseGraphviz ==
    /\ pc = "parse_graphviz"
    /\ graphviz_data' = parse_graphviz(notes_text)
    /\ pc' = "done"
    /\ UNCHANGED <<notes_text, key, quiz_ret, summary_text>>
    /\ UNCHANGED endpoint_vars

GetTopicFromSummary ==
    /\ pc = "get_topic_from_summary"
    /\ summary_text' = summary_span(notes_text)
    /\ pc' = "done"
    /\ UNCHANGED <<notes_text, key, quiz_ret, graphviz_data>>
    /\ UNCHANGED endpoint_vars

Next == ParseQuizFromJson

NextDiagram == ParseGraphviz

Spec == Init /\ [][Next]_vars

SpecAnyLabel == InitAnyLabel /\ [][Next]_vars

SpecDiagram == InitDiagram /\ [][NextDiagram]_vars

NextSummary == GetTopicFromSummary

SpecSummary == InitSummary /\ [][NextSummary]_vars

----------------------------------------------------------------------------
(* generate_notes_endpoint, one step per call it makes *)

\* the server has started; the path may hold a file of an earlier run
InitEndpoint ==
    /\ pc = "generate_notes_endpoint"
    /\ notes_text = <<>>
    /\ key = <<>>
    /\ quiz_ret = NotCalled
    /\ graphviz_data = GraphNotCalled
    /\ summary_text = GraphNotCalled
    /\ audio_file \in {NoFile, StaleFile}
    /\ NoRequests

\* request r moves on to the step named
Goto(r, step) == where' = [where EXCEPT ![r] = step]

\* the try statement is left on a path that skips the finally clause
LeaveNoFinally(r, status) ==
    /\ response' = [response EXCEPT ![r] = status]
    /\ Goto(r, "returned")

\* the try statement is left with the response chosen, by the return of
\* the try block or of the except clause: the finally clause runs next
Leave(r, status) ==
    /\ response' = [response EXCEPT ![r] = status]
    /\ Goto(r, "finally")

\* except Exception as e: return {"status": "error", ...}
Except(r) == Leave(r, "error")

\* no other request is between its call and its return
Alone(r) == \A o \in Requests \ {r} : where[o] \in {"idle", "returned"}

\* POST /generate arrives with a URL; audio_file_path = "Target_audio.mp3"
Receive(r) ==
    /\ where[r] = "idle"
    /\ \E url \in URLs : video_url' = [video_url EXCEPT ![r] = url]
    /\ Goto(r, "video_to_audio")
    /\ UNCHANGED <<audio_file, transcript, response>>

\* the server takes one request at a time
CallAlone(r) == Alone(r) /\ Receive(r) /\ UNCHANGED parser_vars

\* the server's thread pool takes a request while another is in progress
Call(r) == Receive(r) /\ UNCHANGED parser_vars

\* video_to_audio, ydl.download([video_url]): the audio of the URL is
\* written to the path, over what was there, or a file of size 0 is, or the
\* download raises and leaves the path as it was
Download(r) ==
    /\ where[r] = "video_to_audio"
    /\ \/ /\ audio_file' \in {video_url[r], EmptyFile}
          /\ Goto(r, "check_created")
          /\ UNCHANGED response
       \/ /\ Except(r)
          /\ UNCHANGED audio_file
    /\ UNCHANGED <<video_url, transcript>>
    /\ UNCHANGED parser_vars

\* video_to_audio: if not os.path.exists(...) or os.path.getsize(...) == 0:
\* raise FileNotFoundError
CheckCreated(r) ==
    /\ where[r] = "check_created"
    /\ IF audio_file \in {NoFile, EmptyFile}
       THEN Except(r)
       ELSE Goto(r, "audio_to_text") /\ UNCHANGED response
    /\ UNCHANGED <<audio_file, video_url, transcript>>
    /\ UNCHANGED parser_vars

\* audio_to_text: if not os.path.exists(audio_path): raise FileNotFoundError
AudioExists(r) ==
    /\ where[r] = "audio_to_text"
    /\ IF audio_file = NoFile
       THEN Except(r)
       ELSE Goto(r, "transcribe") /\ UNCHANGED response
    /\ UNCHANGED <<audio_file, video_url, transcript>>
    /\ UNCHANGED parser_vars

\* audio_to_text, model.transcribe(audio_path): the transcript is of the
\* audio the path holds now; no file or an empty one raises, and the model
\* can raise on any file
Transcribe(r) ==
    /\ where[r] = "transcribe"
    /\ \/ /\ audio_file \notin {NoFile, EmptyFile}
          /\ transcript' = [transcript EXCEPT ![r] = audio_file]
          /\ Goto(r, "generate_notes")
          /\ UNCHANGED response
       \/ /\ Except(r)
          /\ UNCHANGED transcript
    /\ UNCHANGED <<audio_file, video_url>>
    /\ UNCHANGED parser_vars

\* notes_text = processing.generate_notes(transcript), or it raises
GenerateNotes(r) ==
    /\ where[r] = "generate_notes"
    /\ \/ Goto(r, "parse") /\ UNCHANGED response
       \/ Except(r)
    /\ UNCHANGED <<audio_file, video_url, transcript>>
    /\ UNCHANGED parser_vars

\* the three parsing calls and return {"status": "success", ...}, or an
\* exception on the way
ParseAndReturn(r) ==
    /\ where[r] = "parse"
    /\ \/ Leave(r, "success")
       \/ Except(r)
    /\ UNCHANGED <<audio_file, video_url, transcript>>
    /\ UNCHANGED parser_vars

\* finally: if os.path.exists(audio_file_path):
Finally(r) ==
    /\ where[r] = "finally"
    /\ Goto(r, IF audio_file # NoFile THEN "remove" ELSE "returned")
    /\ UNCHANGED <<audio_file, video_url, transcript, response>>
    /\ UNCHANGED parser_vars

\* os.remove(audio_file_path); with the file gone since the test, it
\* raises FileNotFoundError and the exception replaces the response
Remove(r) ==
    /\ where[r] = "remove"
    /\ IF audio_file # NoFile
       THEN audio_file' = NoFile /\ UNCHANGED response
       ELSE response' = [response EXCEPT ![r] = "raised"] /\ UNCHANGED audio_file
    /\ Goto(r, "returned")
    /\ UNCHANGED <<video_url, transcript>>
    /\ UNCHANGED parser_vars

\* a step of request r behind its call
Step(r) ==
    \/ Download(r)
    \/ CheckCreated(r)
    \/ AudioExists(r)
    \/ Transcribe(r)
    \/ GenerateNotes(r)
    \/ ParseAndReturn(r)
    \/ Finally(r)
    \/ Remove(r)

NextEndpoint == \E r \in Requests : CallAlone(r) \/ Step(r)

NextConcurrent == \E r \in Requests : Call(r) \/ Step(r)

\* requests served one at a time
SpecEndpoint == InitEndpoint /\ [][NextEndpoint]_vars

\* requests served by the threads of the pool, in any interleaving
SpecConcurrent == InitEndpoint /\ [][NextConcurrent]_vars

----------------------------------------------------------------------------
(* Reading a document the way the specification words it *)

\* a header for the label starts at position i: the mark ##, whitespace or
\* none, and the label's text in any letter case
HeaderFor(text, i, label) ==
    /\ i + 1 <= Len(text)
    /\ text[i] = "#"
    /\ text[i + 1] = "#"
    /\ \E j \in (i + 2)..Len(text) :
          /\ \A k \in (i + 2)..(j - 1) : text[k] \in {" ", "\n"}
          /\ j + Len(label) - 1 <= Len(text)
          /\ \A k \in 1..Len(label) : Lower(text[j + k - 1]) = Lower(label[k])

HeadersFor(text, label) == {i \in 1..Len(text) : HeaderFor(text, i, label)}

HasHeader == HeadersFor(notes_text, key) # {}

FirstHeader == Min(HeadersFor(notes_text, key))

\* where any header mark ## starts
HeaderMarks(text) ==
    {i \in 1..(Len(text) - 1) : text[i] = "#" /\ text[i + 1] = "#"}

\* the section of the first matching header ends at the next header mark
SectionEnd ==
    Min({i \in HeaderMarks(notes_text) : i > FirstHeader} \cup {Len(notes_text) + 1})

ThreeBackticks(text, i) ==
    /\ i + 2 <= Len(text)
    /\ \A k \in i..(i + 2) : text[k] = Backtick

\* where a fence tagged json opens
JsonFenceOpens(text) ==
    {f \in 1..Len(text) :
        /\ ThreeBackticks(text, f)
        /\ f + 3 <= Len(text)
        /\ text[f + 3] \in {"json", "JSON"}}

\* the json fences of the matched header's own section
OwnFences == {f \in JsonFenceOpens(notes_text) : FirstHeader < f /\ f < SectionEnd}

\* the json fences anywhere after the matched header
LaterFences == {f \in JsonFenceOpens(notes_text) : FirstHeader < f}

\* where the fence that opens at f can close
FenceCloses(text, f) == {c \in (f + 4)..Len(text) : ThreeBackticks(text, c)}

\* the text between the fence's tag and its closing fence
FenceContent(text, f) == Slice(text, f + 4, Min(FenceCloses(text, f)))

\* the first json fence after the matched header is closed
FirstFenceClosed ==
    /\ HasHeader
    /\ LaterFences # {}
    /\ FenceCloses(notes_text, Min(LaterFences)) # {}

FirstFenceContent == FenceContent(notes_text, Min(LaterFences))

\* the JSON text of an array of the integers 1 and 2, as json.dumps writes it
RECURSIVE JsonItems(_)
JsonItems(arr) ==
    IF arr = <<>> THEN <<>>
    ELSE LET digit == IF Head(arr) = 1 THEN "1" ELSE "2"
         IN  IF Len(arr) = 1 THEN <<digit>>
             ELSE <<digit, ",", " ">> \o JsonItems(Tail(arr))

JsonText(arr) == <<"[">> \o JsonItems(arr) \o <<"]">>

SampleArrays == UNION {[1..n -> {1, 2}] : n \in 0..2}

AsPyList(arr) == PyList([i \in 1..Len(arr) |-> PyInt(arr[i])])

EmptySequence == Returned(PyList(<<>>))

\* the document with the letter case of every label changed (labels stand
\* in header lines only)
SwapCase(c) ==
    CASE c = "MCQ Quiz" -> "mcq quiz"
      [] c = "mcq quiz" -> "MCQ Quiz"
      [] c = "Flashcard Review" -> "flashcard review"
      [] OTHER -> c

CaseChanged(text) == [i \in 1..Len(text) |-> SwapCase(text[i])]

----------------------------------------------------------------------------
(* Claims about parse_quiz_from_json *)

\* C1: the result only comes from a json fence between the first header
\* matching the label and the next ## header: when the matched section holds
\* no json fence of its own the result is the empty sequence, also when a
\* later section holds a valid json fence.
C1_OnlyOwnSection ==
    (pc = "done" /\ HasHeader /\ OwnFences = {}) => quiz_ret = EmptySequence

\* C2: when the first header matching the label is followed by a json fence
\* whose content is a valid JSON array, the call returns the decoded array,
\* the items unchanged and in their order.
C2_ValidArrayDecoded ==
    (pc = "done" /\ FirstFenceClosed) =>
        LET content == strip(FirstFenceContent)
        IN  \A arr \in SampleArrays :
                content = JsonText(arr) => quiz_ret = Returned(AsPyList(arr))

C2_Witness ==
    /\ pc = "done"
    /\ FirstFenceClosed
    /\ FirstFenceContent = <<"\n">> \o JsonText(<<1, 2>>)
    /\ quiz_ret = Returned(PyList(<<PyInt(1), PyInt(2)>>))

\* C3: when the header matching the label is followed by a json fence whose
\* content is not valid JSON, the call returns the empty sequence and does
\* not raise.
C3_InvalidJsonEmpty ==
    (pc = "done" /\ FirstFenceClosed /\ ~json_loads(FirstFenceContent).ok)
        => quiz_ret = EmptySequence

C3_Witness ==
    /\ pc = "done"
    /\ FirstFenceClosed
    /\ FirstFenceContent = JsonText(<<1, 2>>) \o <<"{", "}">>
    /\ quiz_ret = EmptySequence

\* C4: a document with no header matching the label, or with a matching
\* header and no json fence after it, yields the empty sequence.
C4_NoHeaderOrNoFenceEmpty ==
    (pc = "done" /\ (~HasHeader \/ LaterFences = {})) => quiz_ret = EmptySequence

\* a json fence with a valid array before the only matching header, none after
C4_Witness ==
    /\ pc = "done"
    /\ HasHeader
    /\ LaterFences = {}
    /\ \E f \in JsonFenceOpens(notes_text) :
          /\ FenceCloses(notes_text, f) # {}
          /\ FenceContent(notes_text, f) = JsonText(<<1, 2>>)
    /\ quiz_ret = EmptySequence

\* C5: label matching is case-insensitive: the result is that of the
\* document whose header text has its letter case changed, and the header
\* ##mcq quiz is matched by the label MCQ Quiz.
C5_CaseInsensitive ==
    pc = "done" =>
        /\ quiz_ret = parse_quiz_from_json(CaseChanged(notes_text), key)
        /\ (/\ key = <<"MCQ Quiz">>
            /\ notes_text = <<"#", "#", "mcq quiz">> \o JsonFence
                                \o JsonText(<<1, 2>>) \o CloseFence)
               => quiz_ret = Returned(AsPyList(<<1, 2>>))

C5_Witness ==
    /\ pc = "done"
    /\ key = <<"MCQ Quiz">>
    /\ HeaderFor(notes_text, 1, key)
    /\ notes_text[3] = "mcq quiz"
    /\ quiz_ret = Returned(AsPyList(<<1, 2>>))

\* C6: no exception escapes the call, whatever the document and the label,
\* labels with characters such as ( or * included.
C6_NoExceptionEscapes == pc = "done" => quiz_ret.raised = "none"

\* C7: the returned value is always a sequence, never a bare JSON object or
\* scalar, also when the matched fence holds valid JSON that is no array.
C7_AlwaysSequence ==
    pc = "done" => (quiz_ret.raised = "none" /\ quiz_ret.value.type = "list")

----------------------------------------------------------------------------
(* Claims about parse_graphviz *)

\* where a fence tagged dot opens
DotFenceOpens(text) ==
    {f \in 1..Len(text) :
        /\ ThreeBackticks(text, f)
        /\ f + 3 <= Len(text)
        /\ text[f + 3] = "dot"}

FirstDotFence == Min(DotFenceOpens(notes_text))

\* the document's first dot fence is closed
DotFenceClosed ==
    /\ DotFenceOpens(notes_text) # {}
    /\ FenceCloses(notes_text, FirstDotFence) # {}

\* the text between the first dot fence's tag and its closing fence
DotContent == FenceContent(notes_text, FirstDotFence)

BeginsWithDigraph(t) == t # <<>> /\ t[1] = "digraph"

Count(t, c) == Cardinality({i \in 1..Len(t) : t[i] = c})

\* the style preamble as it is inserted: a space and the styling text
StylePreamble == <<" ">> \o styling

\* the complete graph the content is normalized to
Normalized(t) ==
    IF BeginsWithDigraph(t) THEN t
    ELSE <<"digraph", " ", "G", " ", "{", " ">> \o t \o <<" ", "}">>

\* t with ins put right after the first character c, nothing else changed
InsertAfterFirst(t, c, ins) ==
    LET first == Min({i \in 1..Len(t) : t[i] = c})
    IN  SubSeq(t, 1, first) \o ins \o SubSeq(t, first + 1, Len(t))

\* C8: every diagram returned carries the default style after the graph's
\* opening brace, also when the fenced content begins with digraph and
\* holds no brace.
C8_AlwaysStyled ==
    (pc = "done" /\ graphviz_data.kind = "str") =>
        \E i \in 1..(Len(graphviz_data.text) - 2) :
            /\ graphviz_data.text[i] = "{"
            /\ SubSeq(graphviz_data.text, i + 1, i + 2) = StylePreamble

\* C9: when the trimmed content of the first dot fence does not begin with
\* digraph, the result is digraph G { style content }, with the raw trimmed
\* content as its body and the style once; content that begins with digraph
\* gets no extra wrapper.  The fence is taken to hold at least one
\* character, the reading that asks least of the code.
C9_WrappedWhenNoDigraph ==
    (pc = "done" /\ DotFenceClosed /\ DotContent # <<>>) =>
        LET content == strip(DotContent)
        IN  IF ~BeginsWithDigraph(content)
            THEN graphviz_data =
                    PyStr(<<"digraph", " ", "G", " ", "{">> \o StylePreamble
                            \o <<" ">> \o content \o <<" ", "}">>)
            ELSE /\ graphviz_data.kind = "str"
                 /\ Count(graphviz_data.text, "digraph") = Count(content, "digraph")

\* C10: the style is injected once, right after the first brace only: for
\* fenced content with one or more braces the result is the normalized
\* content with the preamble after its first brace, every other character
\* unchanged and in order, and no style at a later brace.
C10_StyleOnceAtFirstBrace ==
    (pc = "done" /\ DotFenceClosed /\ Count(DotContent, "{") >= 1) =>
        /\ graphviz_data =
              PyStr(InsertAfterFirst(Normalized(strip(DotContent)), "{", StylePreamble))
        /\ Count(graphviz_data.text, styling[1]) = 1

\* a graph with a second brace, styled at the first only
C10_Witness ==
    /\ pc = "done"
    /\ DotFenceClosed
    /\ BeginsWithDigraph(strip(DotContent))
    /\ Count(DotContent, "{") >= 2
    /\ graphviz_data.kind = "str"
    /\ Count(graphviz_data.text, styling[1]) = 1

----------------------------------------------------------------------------
(* The summary span *)

\* the position behind the header that starts at i: ##, whitespace, the
\* optional word Detailed and one whitespace character, the word Summary
\* in either case; 0 when no Summary header starts at i
SummaryHeaderEnd(text, i) ==
    IF ~LiteralAt(text, i, HeaderMark, FALSE) THEN 0
    ELSE LET j == SpaceRunEnd(text, i + 2)
         IN  IF LiteralAt(text, j, SummaryWord, TRUE) THEN j + 1
             ELSE IF /\ LiteralAt(text, j, DetailedWord, TRUE)
                     /\ j + 1 <= Len(text)
                     /\ IsSpace(text[j + 1])
                     /\ LiteralAt(text, j + 2, SummaryWord, TRUE)
                  THEN j + 3
                  ELSE 0

SummaryHeaders == {i \in 1..Len(notes_text) : SummaryHeaderEnd(notes_text, i) > 0}

FirstSummaryHeader == Min(SummaryHeaders)

\* the position behind the first Summary header
HeaderEnd == SummaryHeaderEnd(notes_text, FirstSummaryHeader)

\* the ## marks behind the first Summary header
MarksAfterHeader ==
    {e \in HeaderEnd..Len(notes_text) : LiteralAt(notes_text, e, HeaderMark, FALSE)}

\* the first Summary header is a line of its own: a line end follows the
\* word at once
HeaderIsLine ==
    /\ SummaryHeaders # {}
    /\ HeaderEnd <= Len(notes_text)
    /\ notes_text[HeaderEnd] = "\n"

\* the text between the header's line and the next ## header, or to the
\* end of the document when no ## follows
SummaryBody ==
    Slice(notes_text, HeaderEnd + 1,
          IF MarksAfterHeader = {} THEN Len(notes_text) + 1
          ELSE Min(MarksAfterHeader))

\* C11: when the first Summary header is a line of its own, a non-blank
\* body line follows it at once and a later ## header closes the section,
\* the span is the trimmed text of all lines between the header's line and
\* that ## header, the first body line included.
C11_WholeBodyCaptured ==
    (/\ pc = "done"
     /\ HeaderIsLine
     /\ MarksAfterHeader # {}
     /\ SummaryBody # <<>>
     /\ ~IsSpace(SummaryBody[1])) =>
        summary_text = PyStr(strip(SummaryBody))

\* C12: when no ## occurs in the document behind the Summary header, the
\* span is None, whatever the body of the section holds.
C12_LastSectionNeverCaptured ==
    (/\ pc = "done"
     /\ SummaryHeaders # {}
     /\ MarksAfterHeader = {}) =>
        summary_text = PyNoneStr

\* a Summary section with two body lines at the end of the document
C12_Witness ==
    /\ pc = "done"
    /\ HeaderIsLine
    /\ MarksAfterHeader = {}
    /\ Count(SummaryBody, "\n") >= 2
    /\ ~IsSpace(SummaryBody[1])
    /\ summary_text = PyNoneStr

----------------------------------------------------------------------------
(* The audio file of the endpoint *)

InFlight(r) == where[r] \notin {"idle", "returned"}

\* C13: with requests served one at a time, whatever the outcome of the
\* download, the transcription, the note generation and the parsing, the
\* file Target_audio.mp3 does not exist once the endpoint has returned.
C13_FileRemovedOnReturn ==
    \A r \in Requests :
        (where[r] = "returned" /\ \A o \in Requests : ~InFlight(o)) =>
            audio_file = NoFile

\* one request has returned success, another an error, after a download
\* each, and the file is gone
C13_Witness ==
    /\ \E r \in Requests : response[r] = "success" /\ transcript[r] = video_url[r]
    /\ \E r \in Requests : response[r] = "error" /\ transcript[r] # "none"
    /\ \A r \in Requests : where[r] = "returned"
    /\ audio_file = NoFile

\* C14: in every interleaving of two requests each transcribes the audio
\* downloaded for its own URL, and from the check of its download to its
\* transcription the path holds that audio: no other request's download
\* overwrites it and no cleanup removes it.
C14_NoInterference ==
    \A r \in Requests :
        /\ transcript[r] # "none" => transcript[r] = video_url[r]
        /\ where[r] \in {"audio_to_text", "transcribe"} => audio_file = video_url[r]

=============================================================================
